---- MODULE Spec2Model ----
(***************************************************************************)
(* Model of main8.py: the contact book (Field validators, Record,          *)
(* AddressBook with get_upcoming_birthdays), the pickle persistence, the   *)
(* input_error wrapper, the command handlers and the main loop.            *)
(*                                                                         *)
(* A Python string is a sequence of one-character strings; a Python value  *)
(* is a record [type, chars].  A call that can raise returns a record      *)
(* whose field exc is "" on a normal return and the exception class        *)
(* otherwise.                                                              *)
(***************************************************************************)
EXTENDS Integers, Sequences, FiniteSets, TLC

VARIABLES book, file, pc, today, last, out

vars == <<book, file, pc, today, last, out>>

-----------------------------------------------------------------------------
(* Python values                                                           *)

PyStr(s) == [type |-> "str", chars |-> s]

PyInt(s) == [type |-> "int", chars |-> s]

None == [type |-> "NoneType", chars |-> <<>>]

\* the ten ASCII decimal digits, by value
AsciiDigits == <<"0", "1", "2", "3", "4", "5", "6", "7", "8", "9">>

IsAsciiDigit(c) == \E i \in 1..10 : AsciiDigits[i] = c

DigitValue(c) == (CHOOSE i \in 1..10 : AsciiDigits[i] = c) - 1

\* characters with the Unicode property Numeric_Type=Digit that are not
\* decimal digits; "sup2" stands for U+00B2 SUPERSCRIPT TWO
OtherUnicodeDigits == {"sup2"}

\* str.isdigit(): non-empty and every character is a Unicode digit
isdigit(s) == Len(s) > 0 /\ \A i \in 1..Len(s) : IsAsciiDigit(s[i]) \/ s[i] \in OtherUnicodeDigits

\* the regular expression \d{n} of _strptime on the inputs of the model: ASCII decimal digits
IsDecimal(s) == Len(s) > 0 /\ \A i \in 1..Len(s) : IsAsciiDigit(s[i])

RECURSIVE ToInt(_)
ToInt(s) == IF s = <<>> THEN 0 ELSE 10 * ToInt(SubSeq(s, 1, Len(s) - 1)) + DigitValue(s[Len(s)])

-----------------------------------------------------------------------------
(* datetime.date                                                           *)

Date(y, m, d) == [year |-> y, month |-> m, day |-> d]

NoDate == Date(0, 0, 0)

IsLeap(y) == y % 4 = 0 /\ (y % 100 # 0 \/ y % 400 = 0)

DaysInMonth(y, m) == IF m = 2 THEN (IF IsLeap(y) THEN 29 ELSE 28) ELSE IF m \in {4, 6, 9, 11} THEN 30 ELSE 31

ValidDate(y, m, d) == y \in 1..9999 /\ m \in 1..12 /\ d >= 1 /\ d <= DaysInMonth(y, m)

RECURSIVE DaysBeforeMonth(_, _)
DaysBeforeMonth(y, m) == IF m = 1 THEN 0 ELSE DaysBeforeMonth(y, m - 1) + DaysInMonth(y, m - 1)

toordinal(dt) == (dt.year - 1) * 365 + (dt.year - 1) \div 4 - (dt.year - 1) \div 100 + (dt.year - 1) \div 400 + DaysBeforeMonth(dt.year, dt.month) + dt.day

\* date.weekday(): Monday is 0, Saturday 5, Sunday 6
weekday(dt) == (toordinal(dt) + 6) % 7

\* date comparison
DateLT(a, b) == a.year < b.year \/ (a.year = b.year /\ (a.month < b.month \/ (a.month = b.month /\ a.day < b.day)))

DateLE(a, b) == a = b \/ DateLT(a, b)

NextDay(dt) == IF dt.day < DaysInMonth(dt.year, dt.month) THEN Date(dt.year, dt.month, dt.day + 1) ELSE IF dt.month < 12 THEN Date(dt.year, dt.month + 1, 1) ELSE Date(dt.year + 1, 1, 1)

\* date + timedelta(days=n), n >= 0
RECURSIVE AddDays(_, _)
AddDays(dt, n) == IF n = 0 THEN dt ELSE AddDays(NextDay(dt), n - 1)

\* date.replace(year=y): ValueError when the day does not exist in year y
replace_year(dt, y) == IF ValidDate(y, dt.month, dt.day) THEN [exc |-> "", date |-> Date(y, dt.month, dt.day)] ELSE [exc |-> "ValueError", date |-> NoDate]

\* positions of the "." separators of s
Dots(s) == {i \in 1..Len(s) : s[i] = "."}

\* datetime.strptime(s, "%d.%m.%Y").date(): one or two digits for the day and
\* for the month, exactly four for the year, and the date must exist
strptime(s) ==
    LET dots == Dots(s)
        p == CHOOSE i \in dots : \A j \in dots : i <= j
        q == CHOOSE i \in dots : \A j \in dots : j <= i
        ds == SubSeq(s, 1, p - 1)
        ms == SubSeq(s, p + 1, q - 1)
        ys == SubSeq(s, q + 1, Len(s))
        fail == [exc |-> "ValueError", date |-> NoDate]
    IN  IF Cardinality(dots) # 2 THEN fail
        ELSE IF ~(IsDecimal(ds) /\ Len(ds) <= 2 /\ IsDecimal(ms) /\ Len(ms) <= 2 /\ IsDecimal(ys) /\ Len(ys) = 4) THEN fail
        ELSE IF ~ValidDate(ToInt(ys), ToInt(ms), ToInt(ds)) THEN fail
        ELSE [exc |-> "", date |-> Date(ToInt(ys), ToInt(ms), ToInt(ds))]

Fmt2(n) == <<AsciiDigits[((n \div 10) % 10) + 1], AsciiDigits[(n % 10) + 1]>>

Fmt4(n) == Fmt2(n \div 100) \o Fmt2(n % 100)

\* date.strftime("%d.%m.%Y")
strftime(dt) == Fmt2(dt.day) \o <<".">> \o Fmt2(dt.month) \o <<".">> \o Fmt4(dt.year)

-----------------------------------------------------------------------------
(* Field validators                                                        *)

\* Phone.validate
Phone_validate(value) == value.type = "str" /\ isdigit(value.chars) /\ Len(value.chars) = 10

MsgPhoneDigits == "Phone number must contain exactly 10 digits."

MsgOldPhoneNotFound == "Old phone not found."

MsgPhoneNotFound == "Phone not found."

MsgBirthdayFormat == "Invalid date format. Use DD.MM.YYYY"

MsgBirthdayType == "Birthday must be a string in format DD.MM.YYYY"

\* Phone.__init__: the constructed field holds the value itself
Phone(value) == IF ~Phone_validate(value) THEN [exc |-> "ValueError", msg |-> MsgPhoneDigits, value |-> None] ELSE [exc |-> "", msg |-> "", value |-> value]

\* Birthday.__init__: the string is validated and stored as given
Birthday(value) ==
    IF value.type = "str"
    THEN IF strptime(value.chars).exc = "" THEN [exc |-> "", msg |-> "", value |-> value] ELSE [exc |-> "ValueError", msg |-> MsgBirthdayFormat, value |-> None]
    ELSE [exc |-> "ValueError", msg |-> MsgBirthdayType, value |-> None]

-----------------------------------------------------------------------------
(* Record                                                                  *)

\* Record.__init__
Record(name) == [name |-> name, phones |-> <<>>, birthday |-> None]

\* Record.find_phone: position of the first phone whose value equals number, 0 for None
find_phone(rec, number) == IF \E i \in 1..Len(rec.phones) : rec.phones[i] = number THEN CHOOSE i \in 1..Len(rec.phones) : rec.phones[i] = number /\ \A j \in 1..(i - 1) : rec.phones[j] # number ELSE 0

\* Record.add_phone
add_phone(rec, phone_number) ==
    LET phone == Phone(phone_number)
    IN  IF phone.exc # "" THEN [exc |-> phone.exc, msg |-> phone.msg, rec |-> rec]
        ELSE [exc |-> "", msg |-> "", rec |-> [rec EXCEPT !.phones = Append(rec.phones, phone.value)]]

\* Record.remove_phone
remove_phone(rec, phone_number) ==
    LET idx == find_phone(rec, phone_number)
    IN  IF idx # 0 THEN [exc |-> "", msg |-> "", rec |-> [rec EXCEPT !.phones = SubSeq(rec.phones, 1, idx - 1) \o SubSeq(rec.phones, idx + 1, Len(rec.phones))]]
        ELSE [exc |-> "ValueError", msg |-> MsgPhoneNotFound, rec |-> rec]

\* an edit_phone that builds Phone(new) before it looks for old
edit_phone_validating_first(rec, old, new) ==
    LET idx == find_phone(rec, old)
        phone == Phone(new)
    IN  IF phone.exc # "" THEN [exc |-> phone.exc, msg |-> phone.msg, rec |-> rec]
        ELSE IF idx = 0 THEN [exc |-> "ValueError", msg |-> MsgOldPhoneNotFound, rec |-> rec]
        ELSE [exc |-> "", msg |-> "", rec |-> [rec EXCEPT !.phones[idx] = phone.value]]

\* Record.edit_phone
edit_phone(rec, old, new) ==
    LET idx == find_phone(rec, old)
        phone == Phone(new)
    IN  IF idx = 0 THEN [exc |-> "ValueError", msg |-> MsgOldPhoneNotFound, rec |-> rec]
        ELSE IF phone.exc # "" THEN [exc |-> phone.exc, msg |-> phone.msg, rec |-> rec]
        ELSE [exc |-> "", msg |-> "", rec |-> [rec EXCEPT !.phones[idx] = phone.value]]

\* Record.add_birthday
add_birthday(rec, birthday_str) ==
    LET b == Birthday(birthday_str)
    IN  IF b.exc # "" THEN [exc |-> b.exc, msg |-> b.msg, rec |-> rec]
        ELSE [exc |-> "", msg |-> "", rec |-> [rec EXCEPT !.birthday = b.value]]

-----------------------------------------------------------------------------
(* AddressBook: the dict in insertion order, a sequence of records keyed   *)
(* by record.name                                                          *)

\* position of the entry with key name, 0 when absent
IndexOf(b, name) == IF \E i \in 1..Len(b) : b[i].name = name THEN CHOOSE i \in 1..Len(b) : b[i].name = name ELSE 0

Keys(b) == {b[i].name : i \in 1..Len(b)}

\* AddressBook.find: the record, or None
find(b, name) == IF IndexOf(b, name) = 0 THEN None ELSE b[IndexOf(b, name)]

\* an add_record that keeps the phones of the record it finds under the name
add_record_merging(b, record) == IF IndexOf(b, record.name) = 0 THEN Append(b, record) ELSE [b EXCEPT ![IndexOf(b, record.name)] = [record EXCEPT !.phones = b[IndexOf(b, record.name)].phones \o record.phones]]

\* AddressBook.add_record: an existing key keeps its position, a new key goes last
add_record(b, record) == IF IndexOf(b, record.name) = 0 THEN Append(b, record) ELSE [b EXCEPT ![IndexOf(b, record.name)] = record]

\* AddressBook.delete
delete(b, name) ==
    LET i == IndexOf(b, name)
    IN  IF i # 0 THEN [exc |-> "", msg |-> "", book |-> SubSeq(b, 1, i - 1) \o SubSeq(b, i + 1, Len(b))]
        ELSE [exc |-> "KeyError", msg |-> "Not found.", book |-> b]

\* timedelta(days=6) of the window
WindowDays == 6

\* insertion of x behind every element whose key is not greater: the step of a stable sort
RECURSIVE InsertSorted(_, _)
InsertSorted(x, s) == IF s = <<>> THEN <<x>> ELSE IF DateLT(x.birthday, s[1].birthday) THEN <<x>> \o s ELSE <<s[1]>> \o InsertSorted(x, Tail(s))

\* sorted(result, key=lambda x: x["birthday"]): stable
RECURSIVE sorted(_)
sorted(s) == IF s = <<>> THEN <<>> ELSE InsertSorted(s[Len(s)], sorted(SubSeq(s, 1, Len(s) - 1)))

\* a greeting that moves a Saturday by one day only
GreetingSaturdayOneDay(bday) == IF weekday(bday) = 5 THEN AddDays(bday, 1) ELSE IF weekday(bday) = 6 THEN AddDays(bday, 1) ELSE bday

\* the greeting date of a birthday anchored at bday
Greeting(bday) == IF weekday(bday) = 5 THEN AddDays(bday, 2) ELSE IF weekday(bday) = 6 THEN AddDays(bday, 1) ELSE bday

\* one iteration of the loop of get_upcoming_birthdays over rec: the entries it
\* appends, or the exception it raises
UpcomingOf(rec, t) ==
    LET parsed == strptime(rec.birthday.chars)
        bday_date == parsed.date
        thisYear == replace_year(bday_date, t.year)
        nextYear == replace_year(bday_date, t.year + 1)
        limit == AddDays(t, WindowDays)
        hit(bday) == IF DateLE(t, bday) /\ DateLE(bday, limit) THEN <<[name |-> rec.name, birthday |-> Greeting(bday)]>> ELSE <<>>
    IN  IF rec.birthday = None THEN [exc |-> "", value |-> <<>>]
        ELSE IF parsed.exc # "" THEN [exc |-> "", value |-> <<>>]
        ELSE IF thisYear.exc # "" THEN [exc |-> thisYear.exc, value |-> <<>>]
        ELSE IF ~DateLT(thisYear.date, t) THEN [exc |-> "", value |-> hit(thisYear.date)]
        ELSE IF nextYear.exc # "" THEN [exc |-> nextYear.exc, value |-> <<>>]
        ELSE [exc |-> "", value |-> hit(nextYear.date)]

\* the loop of get_upcoming_birthdays from entry i on, result holding the entries so far
RECURSIVE UpcomingLoop(_, _, _, _)
UpcomingLoop(b, t, i, result) ==
    IF i > Len(b) THEN [exc |-> "", msg |-> "", value |-> result]
    ELSE LET u == UpcomingOf(b[i], t)
         IN  IF u.exc # "" THEN [exc |-> u.exc, msg |-> "day is out of range for month", value |-> <<>>]
             ELSE UpcomingLoop(b, t, i + 1, result \o u.value)

\* AddressBook.get_upcoming_birthdays with date.today() = t
get_upcoming_birthdays(b, t) ==
    LET r == UpcomingLoop(b, t, 1, <<>>)
    IN  IF r.exc # "" THEN r ELSE [exc |-> "", msg |-> "", value |-> sorted(r.value)]

-----------------------------------------------------------------------------
(* Persistence: pickle writes the book as a stream of opcodes, one group   *)
(* per dict item, and rebuilds it by replaying the stream                  *)

Op(op, arg) == [op |-> op, arg |-> arg]

RECURSIVE DumpPhones(_)
DumpPhones(phones) == IF phones = <<>> THEN <<>> ELSE <<Op("PHONE", phones[1])>> \o DumpPhones(Tail(phones))

\* a dump that leaves the birthday out
DumpRecordWithoutBirthday(rec) == <<Op("NAME", rec.name)>> \o DumpPhones(rec.phones) \o <<Op("BIRTHDAY", None), Op("SETITEM", None)>>

DumpRecord(rec) == <<Op("NAME", rec.name)>> \o DumpPhones(rec.phones) \o <<Op("BIRTHDAY", rec.birthday), Op("SETITEM", None)>>

RECURSIVE DumpItems(_)
DumpItems(b) == IF b = <<>> THEN <<>> ELSE DumpRecord(b[1]) \o DumpItems(Tail(b))

\* pickle.dump
pickle_dump(b) == DumpItems(b) \o <<Op("STOP", None)>>

\* pickle.load: b is the dict built so far, cur the record under construction
RECURSIVE pickle_load(_, _, _)
pickle_load(data, b, cur) ==
    IF data = <<>> \/ data[1].op = "STOP" THEN b
    ELSE IF data[1].op = "NAME" THEN pickle_load(Tail(data), b, Record(data[1].arg))
    ELSE IF data[1].op = "PHONE" THEN pickle_load(Tail(data), b, [cur EXCEPT !.phones = Append(cur.phones, data[1].arg)])
    ELSE IF data[1].op = "BIRTHDAY" THEN pickle_load(Tail(data), b, [cur EXCEPT !.birthday = data[1].arg])
    ELSE pickle_load(Tail(data), add_record(b, cur), cur)

NoFile == [exists |-> FALSE, data |-> <<>>]

\* save_data
save_data(b) == [exists |-> TRUE, data |-> pickle_dump(b)]

\* load_data: FileNotFoundError gives AddressBook()
load_data(f) == IF f.exists THEN pickle_load(f.data, <<>>, Record(None)) ELSE <<>>

-----------------------------------------------------------------------------
(* input_error and the command handlers: a handler yields the text it      *)
(* returns (or the exception that leaves it) and the book it leaves behind *)

MsgUnpack == {"not enough values to unpack", "too many values to unpack"}

\* the except clauses of input_error.inner
input_error(exc, msg) ==
    IF exc = "ValueError" THEN (IF msg \in MsgUnpack THEN "Not enough or too many arguments provided for this command." ELSE "Invalid value: " \o msg)
    ELSE IF exc = "IndexError" THEN "Not enough arguments provided for the command."
    ELSE IF exc = "KeyError" THEN "Contact not found."
    ELSE IF exc = "AttributeError" THEN "Contact not found."
    ELSE "An unexpected error occurred: " \o msg

Printed(text, items, b) == [exc |-> "", text |-> text, items |-> items, book |-> b]

\* Record.__str__
Record_str(rec) == [name |-> rec.name, phones |-> IF rec.phones # <<>> THEN rec.phones ELSE <<PyStr(<<"No phones">>)>>, birthday |-> IF rec.birthday # None THEN rec.birthday ELSE PyStr(<<"No birthday">>)]

\* add_contact
add_contact(args, b) ==
    LET name == args[1]
        phone == args[2]
        b1 == IF find(b, name) = None THEN add_record(b, Record(name)) ELSE b
        msg == IF find(b, name) = None THEN "Contact added." ELSE "Contact updated."
        r == add_phone(find(b1, name), phone)
    IN  IF Len(args) < 2 THEN Printed(input_error("IndexError", ""), <<>>, b)
        ELSE IF r.exc # "" THEN Printed(input_error(r.exc, r.msg), <<>>, b1)
        ELSE Printed(msg, <<>>, add_record(b1, r.rec))

\* change_contact
change_contact(args, b) ==
    LET name == args[1]
        r == edit_phone(find(b, name), args[2], args[3])
    IN  IF Len(args) < 3 THEN Printed(input_error("IndexError", ""), <<>>, b)
        ELSE IF find(b, name) = None THEN Printed(input_error("AttributeError", ""), <<>>, b)
        ELSE IF r.exc # "" THEN Printed(input_error(r.exc, r.msg), <<>>, b)
        ELSE Printed("Phone updated.", <<>>, add_record(b, r.rec))

\* show_phone
show_phone(args, b) ==
    IF Len(args) < 1 THEN Printed(input_error("IndexError", ""), <<>>, b)
    ELSE IF find(b, args[1]) = None THEN Printed(input_error("AttributeError", ""), <<>>, b)
    ELSE IF find(b, args[1]).phones = <<>> THEN Printed("No phones.", <<>>, b)
    ELSE Printed("", find(b, args[1]).phones, b)

\* show_all
show_all(b) == IF b = <<>> THEN Printed("Address book is empty.", <<>>, b) ELSE Printed("", [i \in 1..Len(b) |-> Record_str(b[i])], b)

\* the handler add_birthday
cmd_add_birthday(args, b) ==
    LET name == args[1]
        b1 == IF find(b, name) = None THEN add_record(b, Record(name)) ELSE b
        r == add_birthday(find(b1, name), args[2])
    IN  IF Len(args) < 2 THEN Printed(input_error("IndexError", ""), <<>>, b)
        ELSE IF r.exc # "" THEN Printed(input_error(r.exc, r.msg), <<>>, b1)
        ELSE Printed("Birthday added.", <<>>, add_record(b1, r.rec))

\* show_birthday
show_birthday(args, b) ==
    IF Len(args) < 1 THEN Printed(input_error("IndexError", ""), <<>>, b)
    ELSE IF find(b, args[1]) = None THEN Printed(input_error("AttributeError", ""), <<>>, b)
    ELSE IF find(b, args[1]).birthday = None THEN Printed("No birthday.", <<>>, b)
    ELSE Printed("", <<find(b, args[1]).birthday>>, b)

\* birthdays: not wrapped by input_error, an exception of get_upcoming_birthdays leaves it
birthdays(args, b, t) ==
    LET lst == get_upcoming_birthdays(b, t)
    IN  IF lst.exc # "" THEN [exc |-> lst.exc, text |-> lst.msg, items |-> <<>>, book |-> b]
        ELSE IF lst.value = <<>> THEN Printed("No birthdays in upcoming 7 days.", <<>>, b)
        ELSE Printed("", [i \in 1..Len(lst.value) |-> [date |-> strftime(lst.value[i].birthday), name |-> lst.value[i].name]], b)

-----------------------------------------------------------------------------
(* Inputs                                                                  *)

\* the largest number of phones of one record
MaxPhones == 2

NameA == PyStr(<<"A">>)

NameB == PyStr(<<"B">>)

Names == {NameA, NameB}

PhoneOk == PyStr(<<"0", "5", "0", "1", "2", "3", "4", "5", "6", "7">>)

PhoneSup == PyStr(<<"sup2", "sup2", "sup2", "sup2", "sup2", "sup2", "sup2", "sup2", "sup2", "sup2">>)

PhoneShort == PyStr(<<"0", "5", "0", "1", "2", "3", "4", "5", "6">>)

PhoneAlpha == PyStr(<<"0", "5", "0", "1", "2", "3", "4", "5", "6", "a">>)

PhoneInt == PyInt(<<"5", "0", "1", "2", "3", "4", "5", "6", "7", "8">>)

PhoneInputs == {PhoneOk, PhoneSup, PhoneShort, PhoneAlpha, PhoneInt}

\* the text DD.MM.YYYY of a day, a month and a year
BdayStr(d, m, y) == PyStr(Fmt2(d) \o <<".">> \o Fmt2(m) \o <<".">> \o Fmt4(y))

BdayLeap == BdayStr(29, 2, 2000)

BdayBad == BdayStr(29, 2, 2001)

BdayUnpadded == PyStr(<<"1", ".", "3", ".", "1", "9", "8", "5">>)

BdayDashes == PyStr(<<"2", "0", "0", "0", "-", "0", "1", "-", "0", "1">>)

BdayInt == PyInt(<<"2", "0", "0", "0">>)

BirthdayInputs == {BdayLeap, BdayStr(25, 2, 1991), BdayStr(26, 2, 1992), BdayStr(31, 12, 1999), BdayStr(2, 1, 1970), BdayUnpadded, BdayBad, BdayStr(31, 4, 2000), BdayDashes, BdayInt}

\* the values date.today() takes: the ends of February and of December of a
\* common year and of a leap year
Todays == {Date(y, 2, d) : y \in {2023, 2024}, d \in 22..28} \cup {Date(2024, 2, 29)} \cup {Date(2023, 12, d) : d \in 27..31}

\* the records a caller can have built: the phones passed Phone, the birthday passed Birthday
PhoneLists == UNION {[1..n -> {p \in PhoneInputs : Phone_validate(p)}] : n \in 0..MaxPhones}

RecordInputs == {[name |-> n, phones |-> ps, birthday |-> bd] : n \in Names, ps \in PhoneLists, bd \in {None, BdayLeap}}

\* the argument lists of a command line: none, a name, a name and one or two values
CliPhones == {PhoneOk, PhoneShort}

CliDates == {BdayLeap, BdayBad}

Args1 == {<<>>} \cup {<<n>> : n \in Names}

Args2(values) == Args1 \cup {<<n, v>> : n \in Names, v \in values}

Args3(values) == Args2(values) \cup {<<n, v, w>> : n \in Names, v \in values, w \in values}

CliTodays == {Date(2023, 2, 25), Date(2024, 2, 25)}

-----------------------------------------------------------------------------
(* State                                                                   *)
(*   book   the AddressBook in memory                                      *)
(*   file   addressbook.pkl                                                *)
(*   pc     main: "stopped" before the first run, "running" in the loop,   *)
(*          "exited" after sys.exit(), "crashed" after an exception left   *)
(*          the loop                                                       *)
(*   today  the date.today() the last operation read, NoDate if none       *)
(*   last   the last operation: a method with its arguments, or the        *)
(*          command word main read                                         *)
(*   out    what the last operation returned, printed or raised            *)

Out(kind, exc, text, items) == [kind |-> kind, exc |-> exc, text |-> text, items |-> items]

Last(op, args, rec) == [op |-> op, args |-> args, rec |-> rec]

Init ==
    /\ book = <<>>
    /\ file = NoFile
    /\ pc = "stopped"
    /\ today = NoDate
    /\ last = Last("", <<>>, Record(None))
    /\ out = Out("", "", "", <<>>)

\* the outcome [exc, msg, rec] of a Record method on the record under name
Method(op, args, name, r) ==
    /\ book' = IF r.exc = "" THEN add_record(book, r.rec) ELSE book
    /\ out' = IF r.exc = "" THEN Out("returned", "", "", <<>>) ELSE Out("raised", r.exc, r.msg, <<>>)
    /\ last' = Last(op, <<name>> \o args, Record(None))
    /\ today' = NoDate
    /\ UNCHANGED <<file, pc>>

(* calls of the classes *)

AddRecord ==
    \E record \in RecordInputs :
        /\ book' = add_record(book, record)
        /\ out' = Out("returned", "", "", <<>>)
        /\ last' = Last("add_record", <<record.name>>, record)
        /\ today' = NoDate
        /\ UNCHANGED <<file, pc>>

Delete ==
    \E name \in Names :
        /\ book' = delete(book, name).book
        /\ out' = IF delete(book, name).exc = "" THEN Out("returned", "", "", <<>>) ELSE Out("raised", delete(book, name).exc, delete(book, name).msg, <<>>)
        /\ last' = Last("delete", <<name>>, Record(None))
        /\ today' = NoDate
        /\ UNCHANGED <<file, pc>>

RecAddPhone ==
    \E name \in Keys(book), v \in PhoneInputs :
        /\ Len(find(book, name).phones) < MaxPhones
        /\ Method("add_phone", <<v>>, name, add_phone(find(book, name), v))

RecRemovePhone ==
    \E name \in Keys(book), v \in PhoneInputs :
        Method("remove_phone", <<v>>, name, remove_phone(find(book, name), v))

RecEditPhone ==
    \E name \in Keys(book), old \in {PhoneOk, PhoneSup, PhoneShort}, new \in PhoneInputs :
        Method("edit_phone", <<old, new>>, name, edit_phone(find(book, name), old, new))

RecAddBirthday ==
    \E name \in Keys(book), v \in BirthdayInputs :
        Method("add_birthday", <<v>>, name, add_birthday(find(book, name), v))

NewContact ==
    \E name \in Names :
        /\ book' = add_record(book, Record(name))
        /\ out' = Out("returned", "", "", <<>>)
        /\ last' = Last("add_record", <<name>>, Record(name))
        /\ today' = NoDate
        /\ UNCHANGED <<file, pc>>

GetUpcoming ==
    \E t \in Todays :
        LET r == get_upcoming_birthdays(book, t)
        IN  /\ today' = t
            /\ out' = IF r.exc = "" THEN Out("returned", "", "", r.value) ELSE Out("raised", r.exc, r.msg, <<>>)
            /\ last' = Last("get_upcoming_birthdays", <<>>, Record(None))
            /\ UNCHANGED <<book, file, pc>>

(* the command handlers: what main does with one line of input *)

Handled(cmd, r, t) ==
    /\ book' = r.book
    /\ out' = IF r.exc = "" THEN Out("printed", "", r.text, r.items) ELSE Out("raised", r.exc, r.text, <<>>)
    /\ pc' = IF r.exc = "" THEN pc ELSE "crashed"
    /\ last' = Last(cmd, <<>>, Record(None))
    /\ today' = t
    /\ UNCHANGED file

\* the model stops adding where a record is full
Fits(args) == IF Len(args) < 2 THEN TRUE ELSE IF find(book, args[1]) = None THEN TRUE ELSE Len(find(book, args[1]).phones) < MaxPhones

CmdHello == Handled("hello", Printed("How can I help you?", <<>>, book), NoDate)

CmdAdd == \E args \in Args2(CliPhones) : Fits(args) /\ Handled("add", add_contact(args, book), NoDate)

CmdChange == \E args \in Args3(CliPhones) : Handled("change", change_contact(args, book), NoDate)

CmdPhone == \E args \in Args1 : Handled("phone", show_phone(args, book), NoDate)

CmdAll == Handled("all", show_all(book), NoDate)

CmdAddBirthday == \E args \in Args2(CliDates) : Handled("add-birthday", cmd_add_birthday(args, book), NoDate)

CmdShowBirthday == \E args \in Args1 : Handled("show-birthday", show_birthday(args, book), NoDate)

CmdBirthdays == \E args \in {<<>>, <<NameA>>}, t \in CliTodays : Handled("birthdays", birthdays(args, book, t), t)

CmdUnknown == Handled("unknown", Printed("Unknown command.", <<>>, book), NoDate)

\* close and exit without save_data
CmdExitWithoutSave ==
    \E cmd \in {"close", "exit"} :
        /\ out' = Out("printed", "", "Good bye!", <<>>)
        /\ pc' = "exited"
        /\ last' = Last(cmd, <<>>, Record(None))
        /\ today' = NoDate
        /\ UNCHANGED <<book, file>>

\* close and exit: save_data, "Good bye!", sys.exit()
CmdExit ==
    \E cmd \in {"close", "exit"} :
        /\ file' = save_data(book)
        /\ out' = Out("printed", "", "Good bye!", <<>>)
        /\ pc' = "exited"
        /\ last' = Last(cmd, <<>>, Record(None))
        /\ today' = NoDate
        /\ UNCHANGED book

\* main up to the loop: load_data and the welcome
Start ==
    /\ pc # "running"
    /\ book' = load_data(file)
    /\ out' = Out("printed", "", "Welcome to the assistant bot!", <<>>)
    /\ pc' = "running"
    /\ last' = Last("main", <<>>, Record(None))
    /\ today' = NoDate
    /\ UNCHANGED file

(* one turn of the loop of main, by the command word read *)

LoopHello == pc = "running" /\ CmdHello

LoopAdd == pc = "running" /\ CmdAdd

LoopChange == pc = "running" /\ CmdChange

LoopPhone == pc = "running" /\ CmdPhone

LoopAll == pc = "running" /\ CmdAll

LoopAddBirthday == pc = "running" /\ CmdAddBirthday

LoopShowBirthday == pc = "running" /\ CmdShowBirthday

LoopBirthdays == pc = "running" /\ CmdBirthdays

LoopUnknown == pc = "running" /\ CmdUnknown

LoopExit == pc = "running" /\ CmdExit

-----------------------------------------------------------------------------
(* Specifications                                                          *)

\* the methods of Record and AddressBook on phones, and the handlers add and change
Next == NewContact \/ Delete \/ RecAddPhone \/ RecRemovePhone \/ RecEditPhone \/ CmdAdd \/ CmdChange

Spec == Init /\ [][Next]_vars

\* add_record and delete with records of phones and a birthday
NextBook == AddRecord \/ Delete

SpecBook == Init /\ [][NextBook]_vars

\* a program that builds a book, saves it and loads it
SaveData ==
    /\ file' = save_data(book)
    /\ out' = Out("returned", "", "", <<>>)
    /\ last' = Last("save_data", <<>>, Record(None))
    /\ today' = NoDate
    /\ UNCHANGED <<book, pc>>

LoadData ==
    /\ book' = load_data(file)
    /\ out' = Out("returned", "", "", <<>>)
    /\ last' = Last("load_data", <<>>, Record(None))
    /\ today' = NoDate
    /\ UNCHANGED <<file, pc>>

NextPersist == (~file.exists /\ (AddRecord \/ SaveData)) \/ LoadData

SpecPersist == Init /\ [][NextPersist]_vars

\* birthdays: contacts, add_birthday and get_upcoming_birthdays
NextBirthdays == NewContact \/ RecAddBirthday \/ GetUpcoming

SpecBirthdays == Init /\ [][NextBirthdays]_vars

\* sessions of main
NextMain == Start \/ LoopHello \/ LoopAdd \/ LoopChange \/ LoopPhone \/ LoopAll \/ LoopAddBirthday \/ LoopShowBirthday \/ LoopBirthdays \/ LoopUnknown \/ LoopExit

SpecMain == Init /\ [][NextMain]_vars

-----------------------------------------------------------------------------
(* Properties                                                              *)

\* the birthday of rec as a date
BirthDate(rec) == strptime(rec.birthday.chars).date

\* the days of the window [t, t + 6 days] that carry the day and month of the birthday of rec
Occurrences(rec, t) == {k \in 0..WindowDays : AddDays(t, k).month = BirthDate(rec).month /\ AddDays(t, k).day = BirthDate(rec).day}

\* the next occurrence of the birthday of rec on or after t lies in the window
Qualifies(rec, t) == rec.birthday # None /\ Occurrences(rec, t) # {}

\* that occurrence
Anchored(rec, t) == AddDays(t, CHOOSE k \in Occurrences(rec, t) : TRUE)

\* the entries get_upcoming_birthdays reported, none when it raised
Reported == IF out.kind = "returned" THEN out.items ELSE <<>>

\* C1: get_upcoming_birthdays reports a record if and only if it has a
\* birthday whose next occurrence on or after today lies in [today, today + 6
\* days], and reports each such record exactly once.
C1_ReportsExactlyWindow ==
    last.op = "get_upcoming_birthdays" =>
        \A i \in 1..Len(book) : Cardinality({j \in 1..Len(Reported) : Reported[j].name = book[i].name}) = (IF Qualifies(book[i], today) THEN 1 ELSE 0)

\* the greeting dates of the result in out
GreetingsShifted ==
    (last.op = "get_upcoming_birthdays" /\ out.kind = "returned") =>
        \A j \in 1..Len(out.items) :
            LET rec == find(book, out.items[j].name)
                anchored == Anchored(rec, today)
                shift == IF weekday(anchored) = 5 THEN 2 ELSE IF weekday(anchored) = 6 THEN 1 ELSE 0
            IN  /\ Qualifies(rec, today)
                /\ out.items[j].birthday = AddDays(anchored, shift)
                /\ weekday(out.items[j].birthday) \notin {5, 6}

\* C2: every reported greeting date is the anchored birthday plus 2 days on a
\* Saturday, plus 1 day on a Sunday and the anchored birthday otherwise, so it
\* is never a Saturday or Sunday; the call leaves the stored birthdays as they
\* are.
C2_GreetingShift == []GreetingsShifted /\ [][last'.op = "get_upcoming_birthdays" => book' = book]_vars

\* a birthday anchored on a Saturday or Sunday was reported, moved to the Monday
C2_Witness ==
    /\ last.op = "get_upcoming_birthdays"
    /\ out.kind = "returned"
    /\ \E j \in 1..Len(out.items) : weekday(Anchored(find(book, out.items[j].name), today)) = 5 /\ weekday(out.items[j].birthday) = 0
    /\ \E j \in 1..Len(out.items) : weekday(Anchored(find(book, out.items[j].name), today)) = 6 /\ weekday(out.items[j].birthday) = 0

\* C3: the result of get_upcoming_birthdays is in ascending order of greeting
\* date, entries of equal greeting date are in the order of the book, and the
\* result is the empty sequence when no contact qualifies.
C3_SortedStable ==
    last.op = "get_upcoming_birthdays" =>
        /\ \A i, j \in 1..Len(Reported) : i < j =>
              /\ DateLE(Reported[i].birthday, Reported[j].birthday)
              /\ Reported[i].birthday = Reported[j].birthday => IndexOf(book, Reported[i].name) < IndexOf(book, Reported[j].name)
        /\ (\A i \in 1..Len(book) : ~Qualifies(book[i], today)) => (out.kind = "returned" /\ out.items = <<>>)

\* C4: every phone in every record is a string of exactly 10 decimal digits.
C4_PhonesTenDecimalDigits ==
    \A i \in 1..Len(book) : \A k \in 1..Len(book[i].phones) :
        /\ book[i].phones[k].type = "str"
        /\ Len(book[i].phones[k].chars) = 10
        /\ \A c \in 1..10 : IsAsciiDigit(book[i].phones[k].chars[c])

\* the step is edit_phone(old, new) on a record that has no phone equal to old
EditOfMissingOld == last'.op = "edit_phone" /\ find_phone(find(book, last'.args[1]), last'.args[2]) = 0

\* the exception class of a malformed phone number
ValidationError == Phone(PhoneShort).exc

\* C5 as stated: edit_phone on a record without old fails with an error of a
\* kind distinct from the validation error, for every new, and leaves the
\* phones unchanged.
C5_NotFoundDistinctKind == [][EditOfMissingOld => (out'.kind = "raised" /\ out'.exc # ValidationError /\ book' = book)]_vars

\* C5 amended: edit_phone on a record without old fails with a ValueError of
\* message "Old phone not found." (the class of the validation error, told
\* apart by the message only), for every new, and leaves the phones unchanged.
C5_EditMissingOld == [][EditOfMissingOld => (out'.kind = "raised" /\ out'.exc = "ValueError" /\ out'.text = MsgOldPhoneNotFound /\ out'.text # MsgPhoneDigits /\ book' = book)]_vars

\* edit_phone reported the missing old phone although new is malformed too
C5_Witness == last.op = "edit_phone" /\ out.kind = "raised" /\ out.text = MsgOldPhoneNotFound /\ ~Phone_validate(last.args[3]) /\ find(book, last.args[1]).phones # <<>>

\* C6: add_record of a record whose name is in the book replaces the record
\* under that name by the new one, nothing of the old one kept, and leaves the
\* number of entries and the entries of the other names as they are.
C6_AddRecordReplaces ==
    [][(last'.op = "add_record" /\ last'.rec.name \in Keys(book)) =>
        /\ find(book', last'.rec.name) = last'.rec
        /\ Len(book') = Len(book)
        /\ Keys(book') = Keys(book)
        /\ \A n \in Keys(book) \ {last'.rec.name} : find(book', n) = find(book, n)]_vars

\* the record added last stands before a later entry, so it took the place of
\* an older record of its name; it has neither phones nor a birthday
C6_Witness == last.op = "add_record" /\ Len(book) = 2 /\ book[1] = last.rec /\ last.rec.phones = <<>> /\ last.rec.birthday = None

\* C7: no exception leaves a command handler into the loop of main.
C7_NoExceptionLeavesHandler == pc # "crashed" /\ out.kind # "raised"

\* the two books have the same names and, name by name, the same phones in
\* the same order and the same birthday
SameContacts(b1, b2) == Keys(b1) = Keys(b2) /\ \A n \in Keys(b1) : find(b1, n).phones = find(b2, n).phones /\ find(b1, n).birthday = find(b2, n).birthday

\* C8: loading after saving gives the names, phones and birthdays that were
\* saved; loading when nothing was saved gives the empty book.
C8_RoundTrip == [][last'.op = "load_data" => IF file.exists THEN SameContacts(book', book) ELSE book' = <<>>]_vars

\* a book of two contacts, one with two different phones and a birthday, was saved and loaded
C8_Witness == last.op = "load_data" /\ file.exists /\ Len(book) = 2 /\ \E i \in 1..2 : Len(book[i].phones) = 2 /\ book[i].phones[1] # book[i].phones[2] /\ book[i].birthday # None

\* C9: the file is written by close and exit only, which save the whole book
\* in memory and end the process; no command follows them, and the session
\* after them starts from the book they saved.
C9_SavedOnExitOnly ==
    [][/\ file' # file => last'.op \in {"close", "exit"}
       /\ last'.op \in {"close", "exit"} => (pc = "running" /\ pc' = "exited" /\ file'.exists /\ load_data(file') = book)
       /\ pc = "exited" => last'.op = "main"
       /\ (pc = "exited" /\ pc' = "running") => book' = book]_vars

\* a session that started from a saved book of two contacts
C9_Witness == pc = "running" /\ last.op = "main" /\ Len(book) = 2 /\ file.exists

\* the texts input_error makes of an exception
ErrorTexts == {input_error("IndexError", ""), input_error("KeyError", ""), input_error("AttributeError", ""), input_error("ValueError", MsgPhoneDigits), input_error("ValueError", MsgOldPhoneNotFound), input_error("ValueError", MsgPhoneNotFound), input_error("ValueError", MsgBirthdayFormat), input_error("ValueError", MsgBirthdayType)}

\* C10: a command that ends in an error message leaves the book unchanged.
C10_ErrorLeavesBook == [][(out'.kind = "printed" /\ out'.text \in ErrorTexts) => book' = book]_vars

====
